---- MODULE Spec2Model ----
(***************************************************************************)
(* A model of demo3/tdmpc2.py: the TDMPC2 agent (construction, the        *)
(* discount heuristic, the MPPI planner, the value estimator, the model   *)
(* update and the behaviour-cloning initialisation).                       *)
(*                                                                         *)
(* Numbers.  Values, rewards and discounts are exact rationals <<n, d>>,  *)
(* d >= 0, in lowest terms; <<0,0>> is NaN, <<1,0>> is +Inf, <<-1,0>> is  *)
(* -Inf, and a finite result beyond FMax overflows to an infinity.        *)
(* Actions, mean and std are fixed-point integers: ActScale stands for    *)
(* 1.0.                                                                    *)
(***************************************************************************)
EXTENDS Integers, Sequences, FiniteSets, TLC

VARIABLES
    cfg,        \* the configuration object, shared by every agent built from it
    agents,     \* agent id -> its fields (discount, _prev_mean, model, bc_model, scale, training)
    pc,         \* position of the call in progress ("idle" between calls)
    self,       \* the agent running the call in progress
    args,       \* arguments of the call in progress
    mean,       \* _plan: local mean  [timestep -> [dim -> fixed-point]]
    std,        \* _plan: local std
    value,      \* _plan: the value estimates of the last iteration, before and after nan_to_num
    elite,      \* _plan: elite_idxs, elite_actions and score of the last iteration
    it,         \* _plan: refinement iterations completed in this call
    upd,        \* _update: locals (td_targets, zs, what each step read, step log)
    ret,        \* what the last completed call returned
    err,        \* the exception the last completed call raised ("none" if it returned)
    calls       \* number of calls completed so far

vars == <<cfg, agents, pc, self, args, mean, std, value, elite, it, upd, ret, err, calls>>

-----------------------------------------------------------------------------
(* Bounds of the model *)

\* cfg.horizon
Horizon == cfg.horizon
NumPiTrajs == 1
NumSampled == 2
NumSamples == NumPiTrajs + NumSampled
NumElites == 2
NumTasks == 2
ActScale == 2
MinStd == 1
MaxStd == 2
Temperature == 1
NZ == 2
PMod == 3
MaxCalls == 4
MaxAgents == 2
ExpBits == 3
FMax == 1000

(* Program constants *)
LargeActionDim == 20
IterationsBonus == 2

-----------------------------------------------------------------------------
(* Integer helpers *)

Abs(x) == IF x < 0 THEN -x ELSE x

Sgn(x) == IF x < 0 THEN -1 ELSE IF x > 0 THEN 1 ELSE 0

Mod(x, m) == ((x % m) + m) % m

\* integer division rounding toward zero
DivT(x, y) == Sgn(x) * Sgn(y) * (Abs(x) \div Abs(y))

RECURSIVE Gcd(_, _)
Gcd(a, b) == IF b = 0 THEN a ELSE Gcd(b, a % b)

RECURSIVE Pow2(_)
Pow2(k) == IF k <= 0 THEN 1 ELSE 2 * Pow2(k - 1)

RECURSIVE ISqrtFrom(_, _)
ISqrtFrom(x, r) == IF (r + 1) * (r + 1) > x THEN r ELSE ISqrtFrom(x, r + 1)

\* floor of the square root of x >= 0
ISqrt(x) == ISqrtFrom(x, 0)

RECURSIVE SumSeq(_)
SumSeq(s) == IF s = <<>> THEN 0 ELSE Head(s) + SumSeq(Tail(s))

-----------------------------------------------------------------------------
(* Floating-point values as extended rationals *)

NaN == <<0, 0>>
PosInf == <<1, 0>>
NegInf == <<-1, 0>>

IsNaN(x) == x = NaN
IsInf(x) == x[2] = 0 /\ x[1] # 0
IsFinite(x) == x[2] > 0

\* lowest terms, positive denominator, overflow to an infinity beyond FMax
Norm(n, d) ==
    IF d = 0 THEN <<Sgn(n), 0>>
    ELSE LET s == Sgn(d)
             g == Gcd(Abs(n), Abs(d))
             nn == (s * n) \div g
             dd == (s * d) \div g
         IN  IF nn > FMax * dd THEN PosInf
             ELSE IF nn < -FMax * dd THEN NegInf
             ELSE <<nn, dd>>

R(n) == <<n, 1>>

\* IEEE comparisons: every comparison with NaN is false
RLt(x, y) == ~IsNaN(x) /\ ~IsNaN(y) /\ x[1] * y[2] < y[1] * x[2]
RLe(x, y) == ~IsNaN(x) /\ ~IsNaN(y) /\ (x = y \/ x[1] * y[2] < y[1] * x[2])
RGt(x, y) == RLt(y, x)

RNeg(x) == <<-x[1], x[2]>>

RAdd(x, y) ==
    IF IsNaN(x) \/ IsNaN(y) THEN NaN
    ELSE IF IsInf(x) THEN (IF IsInf(y) /\ y # x THEN NaN ELSE x)
    ELSE IF IsInf(y) THEN y
    ELSE Norm(x[1] * y[2] + y[1] * x[2], x[2] * y[2])

RSub(x, y) == RAdd(x, RNeg(y))

RMul(x, y) ==
    IF IsNaN(x) \/ IsNaN(y) THEN NaN
    ELSE IF IsInf(x) \/ IsInf(y)
         THEN (IF x[1] = 0 \/ y[1] = 0 THEN NaN ELSE <<Sgn(x[1]) * Sgn(y[1]), 0>>)
    ELSE Norm(x[1] * y[1], x[2] * y[2])


\* true division; the callers raise ZeroDivisionError before dividing by zero
RDiv(x, y) == Norm(x[1] * y[2], x[2] * y[1])

\* Python's max(a, b) and min(a, b): the first argument unless the second beats it
PyMax(a, b) == IF RGt(b, a) THEN b ELSE a
PyMin(a, b) == IF RLt(b, a) THEN b ELSE a

-----------------------------------------------------------------------------
(* TDMPC2._get_discount *)

\* the divisions of lines 98 and 100 raise ZeroDivisionError
GetDiscountRaises(c, episode_length) ==
    /\ c.discount_hardcoded = R(0)
    /\ (c.discount_denom = 0 \/ episode_length = 0)

GetDiscountNoUpperClamp(c, episode_length) ==
    IF c.discount_hardcoded # R(0) THEN c.discount_hardcoded
    ELSE LET frac == Norm(episode_length, c.discount_denom)
         IN  PyMax(RDiv(RSub(frac, R(1)), frac), c.discount_min)

GetDiscount(c, episode_length) ==
    IF c.discount_hardcoded # R(0) THEN c.discount_hardcoded
    ELSE LET frac == Norm(episode_length, c.discount_denom)
         IN  PyMin(PyMax(RDiv(RSub(frac, R(1)), frac), c.discount_min),
                   c.discount_max)

-----------------------------------------------------------------------------
(* The world model capability (common/world_model.py): a learned black box. *)
(* Its parameters are six small integers; its heads are fixed tables        *)
(* indexed through them, so that a parameter change changes the outputs.    *)

ParamSet == [enc: 0..(PMod - 1), dyn: 0..(PMod - 1), rew: 0..(PMod - 1),
             Qs: 0..(PMod - 1), tQ: 0..(PMod - 1), pi: 0..(PMod - 1)]

RewTable == << R(-1), NaN, <<1, 2>>, PosInf, R(2), NegInf >>

QTable == << R(0), R(3), <<-1, 2>>, R(1) >>

\* task is 0 for task=None
Encode(m, obs, task) == Mod(obs + m.enc + task, NZ)

WNext(m, z, a, task) == IF m.dyn = 0 THEN z ELSE Mod(z + m.dyn + a[1], NZ)

\* math.two_hot_inv(model.reward(z, a, task), cfg)
RewardValue(m, z, a, task) ==
    IF m.rew = 0 THEN R(1)
    ELSE RewTable[Mod(z + a[1] + m.rew, Len(RewTable)) + 1]

\* model.Q(z, a, task, return_type="avg")
QAvg(m, z, a, task) == QTable[Mod(z + a[1] + m.Qs, Len(QTable)) + 1]

\* model.pi(z, task)[1], an action in [-1, 1]
PiSample(m, z, task, adim) ==
    [d \in 1..adim |-> Mod(z + m.pi + d + task, 2 * ActScale + 1) - ActScale]

\* model._action_masks[task]: task encodes its valid dimensions; the last
\* task leaves the last action dimension unused
ActionMask(task, adim) ==
    [d \in 1..adim |-> IF task = NumTasks /\ d = adim THEN 0 ELSE 1]

-----------------------------------------------------------------------------
(* TDMPC2._estimate_value, for one candidate action sequence *)

\* self.discount[task] if multitask else self.discount
DiscountOf(ag, c, task) == IF c.multitask THEN ag.discount[task] ELSE ag.discount[1]

RECURSIVE EstimateLoopRewardAfter(_, _, _, _, _, _, _, _)
EstimateLoopRewardAfter(m, disc, task, actions, t, z, G, discount) ==
    IF t > Horizon
    THEN RAdd(G, RMul(discount, QAvg(m, z, PiSample(m, z, task, Len(actions[1])), task)))
    ELSE LET z2 == WNext(m, z, actions[t], task)
             reward == RewardValue(m, z2, actions[t], task)
         IN  EstimateLoopRewardAfter(m, disc, task, actions, t + 1, z2,
                          RAdd(G, RMul(discount, reward)), RMul(discount, disc))

RECURSIVE EstimateLoop(_, _, _, _, _, _, _, _)
EstimateLoop(m, disc, task, actions, t, z, G, discount) ==
    IF t > Horizon
    THEN RAdd(G, RMul(discount, QAvg(m, z, PiSample(m, z, task, Len(actions[1])), task)))
    ELSE LET reward == RewardValue(m, z, actions[t], task)
             z2 == WNext(m, z, actions[t], task)
         IN  EstimateLoop(m, disc, task, actions, t + 1, z2,
                          RAdd(G, RMul(discount, reward)), RMul(discount, disc))

EstimateValue(ag, c, z, actions, task) ==
    EstimateLoop(ag.model, DiscountOf(ag, c, task), task, actions, 1, z, R(0), R(1))

-----------------------------------------------------------------------------
(* TDMPC2.__init__ *)

ZeroMean(adim) == [t \in 1..Horizon |-> [d \in 1..adim |-> 0]]

NoRet == [op |-> "none"]

\* lines 50-57: one discount per task, or one scalar (kept as a 1-sequence)
InitDiscount(c) ==
    IF c.multitask
    THEN [k \in 1..Len(c.episode_lengths) |-> GetDiscount(c, c.episode_lengths[k])]
    ELSE << GetDiscount(c, c.episode_length) >>

InitDiscountRaises(c) ==
    IF c.multitask
    THEN \E k \in 1..Len(c.episode_lengths) : GetDiscountRaises(c, c.episode_lengths[k])
    ELSE GetDiscountRaises(c, c.episode_length)

\* line 47-49; the bonus is added to the configuration object itself
BumpIterations(c) ==
    [c EXCEPT !.iterations =
        @ + IterationsBonus * (IF c.action_dim >= LargeActionDim THEN 1 ELSE 0)]

Construct(PS, BS, maxAgents) ==
    /\ pc = "idle"
    /\ calls < MaxCalls
    /\ Len(agents) < maxAgents
    /\ \E m \in PS, b \in BS :
         LET c1 == BumpIterations(cfg)
         IN  /\ cfg' = c1
             /\ IF InitDiscountRaises(c1)
                THEN /\ agents' = agents
                     /\ err' = "ZeroDivisionError"
                     /\ ret' = NoRet
                ELSE /\ agents' = Append(agents,
                            [discount |-> InitDiscount(c1),
                             prev_mean |-> ZeroMean(c1.action_dim),
                             model |-> m, bc_model |-> b,
                             scale |-> 0, training |-> FALSE])
                     /\ err' = "none"
                     /\ ret' = [op |-> "construct", agent |-> Len(agents) + 1]
    /\ calls' = calls + 1
    /\ UNCHANGED <<pc, self, args, mean, std, value, elite, it, upd>>

-----------------------------------------------------------------------------
(* TDMPC2._plan *)

Clamp(x, lo, hi) == IF x < lo THEN lo ELSE IF x > hi THEN hi ELSE x

\* lines 247-257: mean starts at zero, or at _prev_mean shifted by one step
WarmStartNoShift(prev, t0, adim) ==
    IF t0 THEN ZeroMean(adim) ELSE prev

WarmStart(prev, t0, adim) ==
    IF t0 THEN ZeroMean(adim)
    ELSE [t \in 1..Horizon |->
            IF t < Horizon THEN prev[t + 1] ELSE [d \in 1..adim |-> 0]]

\* lines 250-255
InitStd(adim) == [t \in 1..Horizon |-> [d \in 1..adim |-> MaxStd]]

\* lines 239-243: the policy trajectory rolled through the dynamics
RECURSIVE PiRollout(_, _, _, _, _)
PiRollout(m, z, task, adim, t) ==
    IF t > Horizon THEN <<>>
    ELSE LET a == PiSample(m, z, task, adim)
         IN  <<a>> \o PiRollout(m, WNext(m, z, a, task), task, adim, t + 1)

\* lines 282-283, 315-317: x * _action_masks[task] in multi-task mode
Masked(c, task, x) ==
    IF c.multitask
    THEN [t \in 1..Horizon |->
            [d \in 1..c.action_dim |-> x[t][d] * ActionMask(task, c.action_dim)[d]]]
    ELSE x

\* lines 272-283: the candidate action sequences of one iteration
Candidates(c, m, z, task, mn, sd, r) ==
    LET pi_actions == PiRollout(m, z, task, c.action_dim, 1)
    IN  [i \in 1..NumSamples |->
            Masked(c, task,
                IF i <= NumPiTrajs THEN pi_actions
                ELSE [t \in 1..Horizon |-> [d \in 1..c.action_dim |->
                        Clamp(mn[t][d] + sd[t][d] * r[t][i][d], -ActScale, ActScale)]])]

\* Tensor.nan_to_num(0): nan=0, posinf and neginf default to the largest and
\* the lowest finite value
NanToNumIdentity(x) == x

NanToNum(x) ==
    IF IsNaN(x) THEN R(0)
    ELSE IF x = PosInf THEN R(FMax)
    ELSE IF x = NegInf THEN R(-FMax)
    ELSE x

\* torch.topk(value, num_elites).indices: the indices of the largest values in
\* non-increasing order; the order among equal values is not defined
TopK(val) ==
    {idx \in [1..NumElites -> 1..NumSamples] :
        /\ \A j, k \in 1..NumElites : j # k => idx[j] # idx[k]
        /\ \A j \in 1..(NumElites - 1) : ~RLt(val[idx[j]], val[idx[j + 1]])
        /\ \A o \in 1..NumSamples :
             (\A j \in 1..NumElites : idx[j] # o)
                => \A j \in 1..NumElites : ~RGt(val[o], val[idx[j]])}

TorchMax(a, b) == IF IsNaN(a) \/ IsNaN(b) THEN NaN ELSE IF RGt(b, a) THEN b ELSE a

RECURSIVE MaxSeq(_)
MaxSeq(s) == IF Len(s) = 1 THEN s[1] ELSE TorchMax(s[1], MaxSeq(Tail(s)))

\* a weight that is NaN or Inf
NonFinite == -1

\* exp(temperature * x) for x <= 0 on a base-2 grid of ExpBits bits: 2^ExpBits
\* stands for 1.0, and the weight underflows to 0
ExpWeight(x) ==
    LET y == RMul(R(Temperature), x)
    IN  IF y = NegInf THEN 0
        ELSE IF ~IsFinite(y) THEN NonFinite
        ELSE LET k == (-y[1]) \div y[2]
             IN  IF k > ExpBits THEN 0 ELSE Pow2(ExpBits - k)

\* lines 305-307; the 1e-9 keeps the denominator from being zero
WeightedMean(score, ea, t, d) ==
    LET sw == SumSeq(score)
        num == SumSeq([j \in 1..NumElites |-> score[j] * ea[j][t][d]])
    IN  IF sw = 0 THEN 0 ELSE DivT(num, sw)

\* lines 308-313, without the clamp
WeightedStd(score, ea, mn, t, d) ==
    LET sw == SumSeq(score)
        num == SumSeq([j \in 1..NumElites |->
                         score[j] * (ea[j][t][d] - mn[t][d]) * (ea[j][t][d] - mn[t][d])])
    IN  IF sw = 0 THEN 0 ELSE ISqrt(DivT(num, sw))

\* line 314
ClampStdNoFloor(x) == IF x > MaxStd THEN MaxStd ELSE x

ClampStd(x) == Clamp(x, MinStd, MaxStd)

\* the locals of a call end with it
Return ==
    /\ self' = 0
    /\ args' = NoRet
    /\ mean' = <<>>
    /\ std' = <<>>
    /\ value' = <<>>
    /\ elite' = <<>>
    /\ it' = 0

TaskOk(task) == IF cfg.multitask THEN task \in 1..NumTasks ELSE task = 0

PlanStart ==
    /\ pc = "idle"
    /\ calls < MaxCalls
    /\ cfg.iterations > 0
    /\ \E a \in 1..Len(agents), obs \in 0..(NZ - 1), t0 \in BOOLEAN,
          eval_mode \in BOOLEAN, task \in 0..NumTasks :
         /\ TaskOk(task)
         /\ self' = a
         /\ args' = [op |-> "plan", obs |-> obs, t0 |-> t0,
                     eval_mode |-> eval_mode, task |-> task]
         /\ mean' = WarmStart(agents[a].prev_mean, t0, cfg.action_dim)
         /\ std' = InitStd(cfg.action_dim)
    /\ pc' = "plan_loop"
    /\ it' = 0
    /\ value' = <<>>
    /\ elite' = <<>>
    /\ ret' = NoRet
    /\ err' = "none"
    /\ UNCHANGED <<cfg, agents, upd, calls>>

\* one pass of the loop of line 269 (each local is bound once, as a value)
PlanIterate(RS) ==
    /\ pc = "plan_loop"
    /\ it < cfg.iterations
    /\ \E r \in [1..Horizon -> [(NumPiTrajs + 1)..NumSamples -> [1..cfg.action_dim -> RS]]],
          z \in {Encode(agents[self].model, args.obs, args.task)} :
       \E actions \in {Candidates(cfg, agents[self].model, z, args.task, mean, std, r)} :
       \E raw \in {[i \in 1..NumSamples |->
                      EstimateValue(agents[self], cfg, z, actions[i], args.task)]} :
       \E val \in {[i \in 1..NumSamples |-> NanToNum(raw[i])]} :
       \E idx \in TopK(val) :
       \E elite_value \in {[j \in 1..NumElites |-> val[idx[j]]]},
          elite_actions \in {[j \in 1..NumElites |-> actions[idx[j]]]} :
       \E max_value \in {MaxSeq(elite_value)} :
       \E score \in {[j \in 1..NumElites |-> ExpWeight(RSub(elite_value[j], max_value))]} :
       \E mean1 \in {[t \in 1..Horizon |-> [d \in 1..cfg.action_dim |->
                        WeightedMean(score, elite_actions, t, d)]]} :
       \E std1 \in {[t \in 1..Horizon |-> [d \in 1..cfg.action_dim |->
                        ClampStd(WeightedStd(score, elite_actions, mean1, t, d))]]} :
         /\ value' = [raw |-> raw, clean |-> val]
         /\ elite' = [idxs |-> idx, actions |-> elite_actions, score |-> score]
         /\ mean' = Masked(cfg, args.task, mean1)
         /\ std' = Masked(cfg, args.task, std1)
    /\ it' = it + 1
    /\ UNCHANGED <<cfg, agents, pc, self, args, upd, ret, err, calls>>

NoClampAction(a) == a

\* line 330
ClampAction(a) == [d \in DOMAIN a |-> Clamp(a[d], -ActScale, ActScale)]

\* lines 319-330
PlanFinish(RS) ==
    /\ pc = "plan_loop"
    /\ it = cfg.iterations
    /\ \E rand_idx \in {j \in 1..NumElites : elite.score[j] > 0},
          noise \in [1..cfg.action_dim -> RS] :
         LET a0 == elite.actions[rand_idx][1]
             std0 == std[1]
             a == IF args.eval_mode THEN a0
                  ELSE [d \in 1..cfg.action_dim |-> a0[d] + std0[d] * noise[d]]
         IN  ret' = [op |-> "plan", agent |-> self, action |-> ClampAction(a),
                     eval_mode |-> args.eval_mode, iterations |-> it]
    /\ agents' = [agents EXCEPT ![self].prev_mean = mean]
    /\ pc' = "idle"
    /\ err' = "none"
    /\ calls' = calls + 1
    /\ Return
    /\ UNCHANGED <<cfg, upd>>

-----------------------------------------------------------------------------
(* A direct call of TDMPC2._estimate_value on one candidate *)

EstimateValueCall ==
    /\ pc = "idle"
    /\ calls < MaxCalls
    /\ \E a \in 1..Len(agents), z \in 0..(NZ - 1), task \in 0..NumTasks,
          actions \in [1..Horizon -> [1..cfg.action_dim -> (-ActScale)..ActScale]] :
         /\ TaskOk(task)
         /\ ret' = [op |-> "estimate_value", agent |-> a, z |-> z, task |-> task,
                    actions |-> actions,
                    value |-> EstimateValue(agents[a], cfg, z, actions, task)]
    /\ err' = "none"
    /\ calls' = calls + 1
    /\ UNCHANGED <<cfg, agents, pc, self, args, mean, std, value, elite, it, upd>>

-----------------------------------------------------------------------------
(* TDMPC2.update / _update / update_pi.  A tensor computed from the         *)
(* parameters is kept as the record of the parameters it was computed from. *)

\* _td_target (lines 373-379) on next_z = encode(obs[1:]) (line 387)
TdTargetOnline(m) ==
    [next_z |-> m.enc, pi |-> m.pi, Q |-> m.Qs, return_type |-> "min", target |-> FALSE]

TdTarget(m) ==
    [next_z |-> m.enc, pi |-> m.pi, Q |-> m.tQ, return_type |-> "min", target |-> TRUE]

\* lines 405-419: the latent rollout
Rollout(m) == [enc |-> m.enc, dyn |-> m.dyn]

\* optim.step() (line 462): encoder, dynamics, reward and Q parameters move
OptimStep(m, g) ==
    [m EXCEPT !.enc = Mod(@ + g, PMod), !.dyn = Mod(@ + g, PMod),
              !.rew = Mod(@ + g, PMod), !.Qs = Mod(@ + g, PMod)]

\* RunningScale.update (common/scale.py)
ScaleUpdate(s, qs) == Mod(s + qs.Q + 1, PMod + 1)

\* update_pi, lines 345-346: which scale value normalises qs
ScaleApplied(old, new) == new

\* model.soft_update_target_Q (common/world_model.py): the target moves toward
\* the online critic
SoftUpdate(tQ, Qs) == IF tQ < Qs THEN tQ + 1 ELSE IF tQ > Qs THEN tQ - 1 ELSE tQ

\* update (490-504) and _update lines 385-399: sample, then the targets
UpdateTargets ==
    /\ pc = "idle"
    /\ calls < MaxCalls
    /\ \E a \in 1..Len(agents) :
         /\ self' = a
         /\ upd' = [td_targets |-> TdTarget(agents[a].model)]
    /\ args' = [op |-> "update"]
    /\ pc' = "upd_model"
    /\ ret' = NoRet
    /\ err' = "none"
    /\ UNCHANGED <<cfg, agents, mean, std, value, elite, it, calls>>

\* _update lines 402-463: train mode, rollout, losses, model optimizer step
UpdateModel ==
    /\ pc = "upd_model"
    /\ \E g \in 1..(PMod - 1) :
         agents' = [agents EXCEPT ![self].training = TRUE,
                                  ![self].model = OptimStep(@, g)]
    /\ upd' = [td_targets |-> upd.td_targets, zs |-> Rollout(agents[self].model)]
    /\ pc' = "upd_pi"
    /\ UNCHANGED <<cfg, self, args, mean, std, value, elite, it, ret, err, calls>>

\* _update line 466 and update_pi (332-358)
UpdatePi ==
    /\ pc = "upd_pi"
    /\ \E g \in 1..(PMod - 1) :
         LET m == agents[self].model
             qs == [zs |-> upd.zs, pi |-> m.pi, Q |-> m.Qs, return_type |-> "avg"]
             old == agents[self].scale
             new == ScaleUpdate(old, qs)
         IN  /\ agents' = [agents EXCEPT ![self].scale = new,
                                         ![self].model.pi = Mod(@ + g, PMod)]
             /\ upd' = [td_targets |-> upd.td_targets, zs |-> upd.zs,
                        qs |-> qs, scale_applied |-> ScaleApplied(old, new)]
    /\ pc' = "upd_soft"
    /\ UNCHANGED <<cfg, self, args, mean, std, value, elite, it, ret, err, calls>>

\* _update lines 469-488: target update, eval mode, metrics
UpdateSoft ==
    /\ pc = "upd_soft"
    /\ agents' = [agents EXCEPT
                    ![self].model.tQ = SoftUpdate(@, agents[self].model.Qs),
                    ![self].training = FALSE]
    /\ ret' = [op |-> "update", agent |-> self, td_targets |-> upd.td_targets,
               pi_scale |-> agents[self].scale]
    /\ upd' = NoRet
    /\ pc' = "idle"
    /\ err' = "none"
    /\ calls' = calls + 1
    /\ Return
    /\ UNCHANGED cfg

-----------------------------------------------------------------------------
(* TDMPC2.init_bc / _init_bc and TDMPC2.policy_action *)

\* self.model.load_state_dict(self.bc_model.state_dict()) (line 136)
LoadNothing(model, state) == model

LoadStateDict(model, state) == state

\* bc_optim.step() (line 135): the loss reaches only encoder and policy
BcStep(b, g) == [b EXCEPT !.enc = Mod(@ + g, PMod), !.pi = Mod(@ + g, PMod)]

InitBc ==
    /\ pc = "idle"
    /\ calls < MaxCalls
    /\ \E a \in 1..Len(agents), g \in 1..(PMod - 1) :
         /\ agents' = [agents EXCEPT
                         ![a].bc_model = BcStep(@, g),
                         ![a].model = LoadStateDict(@, BcStep(agents[a].bc_model, g))]
         /\ ret' = [op |-> "init_bc", agent |-> a]
    /\ err' = "none"
    /\ calls' = calls + 1
    /\ UNCHANGED <<cfg, pc, self, args, mean, std, value, elite, it, upd>>

\* model.pi(z, task)[0], the mean of the action distribution
PiMean(m, z, task, adim) ==
    [d \in 1..adim |-> Mod(z + 2 * m.pi + d + task, 2 * ActScale + 1) - ActScale]

\* lines 163-168
PolicyActionOf(ag, c, obs, eval_mode, task) ==
    LET z == Encode(ag.bc_model, obs, task)
    IN  IF eval_mode THEN PiMean(ag.bc_model, z, task, c.action_dim)
        ELSE PiSample(ag.bc_model, z, task, c.action_dim)

PolicyAction ==
    /\ pc = "idle"
    /\ calls < MaxCalls
    /\ \E a \in 1..Len(agents), obs \in 0..(NZ - 1), eval_mode \in BOOLEAN,
          task \in 0..NumTasks :
         /\ TaskOk(task)
         /\ ret' = [op |-> "policy_action", agent |-> a, obs |-> obs,
                    eval_mode |-> eval_mode, task |-> task,
                    action |-> PolicyActionOf(agents[a], cfg, obs, eval_mode, task)]
    /\ err' = "none"
    /\ calls' = calls + 1
    /\ UNCHANGED <<cfg, agents, pc, self, args, mean, std, value, elite, it, upd>>

-----------------------------------------------------------------------------
(* Configurations and specifications *)

BaseIterations == 2

InitWith(CS) ==
    /\ cfg \in CS
    /\ agents = <<>>
    /\ pc = "idle"
    /\ self = 0
    /\ args = NoRet
    /\ mean = <<>>
    /\ std = <<>>
    /\ value = <<>>
    /\ elite = <<>>
    /\ it = 0
    /\ upd = NoRet
    /\ ret = NoRet
    /\ err = "none"
    /\ calls = 0

\* the random draws, in units of one standard deviation
Draws == {-2, 1}

OneDraw == {1}

\* episode lengths 4, 8, ... over a denominator of 2: discounts 1/2, 3/4, ...
EpisodeLengths == [k \in 1..NumTasks |-> 4 * k]

CfgsWithHorizon(HS) ==
    [iterations : {BaseIterations}, horizon : HS, action_dim : {1}, multitask : BOOLEAN,
     episode_length : {4}, episode_lengths : {EpisodeLengths},
     discount_denom : {2}, discount_hardcoded : {R(0)},
     discount_min : {R(0)}, discount_max : {R(1)}]

BaseCfgs == CfgsWithHorizon({2})

FixedParams == {m \in ParamSet : m.enc = 0 /\ m.Qs = 0 /\ m.tQ = 0 /\ m.pi = 0
                                  /\ m.dyn = 0 /\ m.rew = 0}

(* The planner: one agent, one plan call, every draw *)

PlanParams == {m \in ParamSet : m.enc = 0 /\ m.Qs = 0 /\ m.tQ = 0 /\ m.pi = 0
                                 /\ m.dyn < 2 /\ m.rew < 2}

InitPlan == InitWith(BaseCfgs)

ConstructPlan == Construct(PlanParams, FixedParams, 1)

PlanStartPlan == calls < 2 /\ PlanStart

PlanIteratePlan == PlanIterate(Draws)

PlanFinishPlan == PlanFinish(Draws)

NextPlan == ConstructPlan \/ PlanStartPlan \/ PlanIteratePlan \/ PlanFinishPlan

SpecPlan == InitPlan /\ [][NextPlan]_vars

(* The warm start: one agent, several plan calls with update calls in between *)

WarmParams == {m \in ParamSet : m.enc = 0 /\ m.Qs = 0 /\ m.tQ = 0 /\ m.pi = 2
                                 /\ m.dyn = 1 /\ m.rew = 0}

InitWarm == InitWith(CfgsWithHorizon({3}))

ConstructWarm == Construct(WarmParams, FixedParams, 1)

PlanIterateWarm == PlanIterate(OneDraw)

PlanFinishWarm == PlanFinish(OneDraw)

NextWarm ==
    \/ ConstructWarm \/ PlanStart \/ PlanIterateWarm \/ PlanFinishWarm
    \/ UpdateTargets \/ UpdateModel \/ UpdatePi \/ UpdateSoft

SpecWarm == InitWarm /\ [][NextWarm]_vars

(* The value estimator called on every candidate of the grid *)

ValueParams == {m \in ParamSet : m.enc = 0 /\ m.tQ = 0 /\ m.pi < 2}

InitValue == InitWith(CfgsWithHorizon({1, 2, 3}))

ConstructValue == Construct(ValueParams, FixedParams, 1)

EstimateValueOnce == calls < 2 /\ EstimateValueCall

NextValue == ConstructValue \/ EstimateValueOnce

SpecValue == InitValue /\ [][NextValue]_vars

(* Training: one agent, update calls only *)

TrainParams == {m \in ParamSet : m.enc = 0 /\ m.dyn = 0 /\ m.rew = 0}

InitTrain == InitWith({c \in BaseCfgs : ~c.multitask})

ConstructTrain == Construct(TrainParams, FixedParams, 1)

NextTrain == ConstructTrain \/ UpdateTargets \/ UpdateModel \/ UpdatePi \/ UpdateSoft

SpecTrain == InitTrain /\ [][NextTrain]_vars

(* Behaviour cloning next to training *)

BcParams == {m \in ParamSet : m.dyn = 0 /\ m.rew = 0 /\ m.Qs = 0 /\ m.tQ = 0
                               /\ m.enc < 2 /\ m.pi < 2}

ModelParams == {m \in ParamSet : m.dyn = 0 /\ m.rew = 0 /\ m.enc = 0 /\ m.pi = 0
                                  /\ m.Qs < 2 /\ m.tQ < 2}

InitCloning == InitWith({c \in BaseCfgs : ~c.multitask})

ConstructBC == Construct(ModelParams, BcParams, 1)

NextBC ==
    \/ ConstructBC \/ InitBc \/ PolicyAction
    \/ UpdateTargets \/ UpdateModel \/ UpdatePi \/ UpdateSoft

SpecBC == InitCloning /\ [][NextBC]_vars

(* The discount heuristic over its configurations, then plan and update *)

DiscountCfgs ==
    [iterations : {BaseIterations}, horizon : {2}, action_dim : {1}, multitask : BOOLEAN,
     episode_length : {-2, 0, 1, 2, 4, 16}, episode_lengths : {[k \in 1..NumTasks |-> IF k = 1 THEN 4 ELSE 0],
                        [k \in 1..NumTasks |-> IF k = 1 THEN 16 ELSE 1],
                        [k \in 1..NumTasks |-> IF k = 1 THEN -2 ELSE 2]},
     discount_denom : {0, 2}, discount_hardcoded : {R(0), <<1, 4>>, <<7, 8>>},
     discount_min : {R(0), <<1, 2>>}, discount_max : {<<1, 4>>, <<3, 4>>}]

InitDiscountSpec == InitWith(DiscountCfgs)

ConstructDiscount == Construct(WarmParams, FixedParams, 1)

PlanStartDiscount == calls < 2 /\ ret.op = "construct" /\ PlanStart

UpdateTargetsDiscount == ret.op \in {"construct", "plan"} /\ UpdateTargets

NextDiscount ==
    \/ ConstructDiscount \/ PlanStartDiscount \/ PlanIterateWarm \/ PlanFinishWarm
    \/ UpdateTargetsDiscount \/ UpdateModel \/ UpdatePi \/ UpdateSoft

SpecDiscount == InitDiscountSpec /\ [][NextDiscount]_vars

(* Several agents built from one configuration object *)

SharedCfgs ==
    [iterations : {BaseIterations}, horizon : {2},
     action_dim : {1, LargeActionDim - 1, LargeActionDim},
     multitask : {FALSE},
     episode_length : {4}, episode_lengths : {EpisodeLengths},
     discount_denom : {2}, discount_hardcoded : {R(0)},
     discount_min : {R(0)}, discount_max : {R(1)}]

InitShared == InitWith(SharedCfgs)

ConstructShared == Construct(WarmParams, FixedParams, MaxAgents)

NextShared == ConstructShared \/ PlanStart \/ PlanIterateWarm \/ PlanFinishWarm

SpecShared == InitShared /\ [][NextShared]_vars

-----------------------------------------------------------------------------
(* Properties *)

InUnit(x) == -ActScale <= x /\ x <= ActScale

InStdRange(x) == MinStd <= x /\ x <= MaxStd

\* C1: every component of the action a plan call returns lies in [-1, 1],
\* with exploration noise (eval_mode false) and without, in single-task and
\* in multi-task mode.
C1_ActionInBounds ==
    ret.op = "plan" => \A d \in 1..cfg.action_dim : InUnit(ret.action[d])

\* C1 witness: a plan call that added noise returned an action on the bound.
C1_Witness ==
    /\ ret.op = "plan"
    /\ ~ret.eval_mode
    /\ cfg.multitask
    /\ ret.action[1] = -ActScale

\* C2 as stated: at the start of the refinement loop and after every
\* iteration every entry of std lies in [min_std, max_std], in both modes.
C2_StdInRange ==
    pc = "plan_loop" =>
        \A t \in 1..Horizon, d \in 1..cfg.action_dim : InStdRange(std[t][d])

\* C2 as amended: every entry of std lies in [min_std, max_std], except that
\* in multi-task mode, after an iteration, the entries of the dimensions the
\* task's action mask removes are exactly 0.
C2_StdInRangeOrMasked ==
    pc = "plan_loop" =>
        \A t \in 1..Horizon, d \in 1..cfg.action_dim :
            IF cfg.multitask /\ it > 0 /\ ActionMask(args.task, cfg.action_dim)[d] = 0
            THEN std[t][d] = 0
            ELSE InStdRange(std[t][d])

\* C2 witness: after an iteration, a masked dimension has std 0.
C2_Witness ==
    /\ pc = "plan_loop"
    /\ it = cfg.iterations
    /\ cfg.multitask
    /\ args.task = NumTasks
    /\ std[1][cfg.action_dim] = 0

RECURSIVE RPow(_, _)
RPow(x, k) == IF k = 0 THEN R(1) ELSE RMul(x, RPow(x, k - 1))

\* z_t: the latent after t transitions along the candidate
RECURSIVE LatentAt(_, _, _, _, _)
LatentAt(m, z0, actions, task, t) ==
    IF t = 0 THEN z0
    ELSE WNext(m, LatentAt(m, z0, actions, task, t - 1), actions[t], task)

RECURSIVE DiscountedRewards(_, _, _, _, _, _)
DiscountedRewards(m, disc, z0, actions, task, n) ==
    IF n = 0 THEN R(0)
    ELSE RAdd(DiscountedRewards(m, disc, z0, actions, task, n - 1),
              RMul(RPow(disc, n - 1),
                   RewardValue(m, LatentAt(m, z0, actions, task, n - 1), actions[n], task)))

\* C4: _estimate_value returns sum_{t < horizon} discount^t * reward(z_t, a_t)
\* + discount^horizon * Q_avg(z_horizon, pi(z_horizon)), z_{t+1} = next(z_t, a_t).
C4_DiscountedReturn ==
    ret.op = "estimate_value" =>
        LET ag == agents[ret.agent]
            m == ag.model
            disc == DiscountOf(ag, cfg, ret.task)
            zH == LatentAt(m, ret.z, ret.actions, ret.task, Horizon)
        IN  ret.value =
              RAdd(DiscountedRewards(m, disc, ret.z, ret.actions, ret.task, Horizon),
                   RMul(RPow(disc, Horizon),
                        QAvg(m, zH, PiSample(m, zH, ret.task, cfg.action_dim), ret.task)))

\* C4 witness: a finite value over moving dynamics with a discount in (0, 1).
C4_Witness ==
    /\ ret.op = "estimate_value"
    /\ agents[ret.agent].model.dyn # 0
    /\ agents[ret.agent].model.rew # 0
    /\ IsFinite(ret.value)
    /\ ret.value # R(0)
    /\ DiscountOf(agents[ret.agent], cfg, ret.task) = <<3, 4>>

UpdatePcs == {"upd_model", "upd_pi", "upd_soft"}

\* C5: within one update call: the TD targets come from the target critic
\* (minimum) and the encoder as they are before any parameter change; then
\* the model optimizer step; then the policy step on the rolled latents of
\* before, the scale updated before it is applied; then the soft update of
\* the target critic, and the model is back in eval mode.  Between updates
\* the parameters stay as the soft update left them.
C5_UpdateOrder ==
    [][ /\ (pc = "idle" /\ pc' = "upd_model") =>
             /\ agents' = agents
             /\ upd'.td_targets.Q = agents[self'].model.tQ
             /\ upd'.td_targets.target
             /\ upd'.td_targets.return_type = "min"
             /\ upd'.td_targets.next_z = agents[self'].model.enc
        /\ pc = "upd_model" =>
             /\ pc' = "upd_pi"
             /\ upd'.td_targets = upd.td_targets
             /\ upd'.zs = [enc |-> agents[self].model.enc, dyn |-> agents[self].model.dyn]
             /\ agents'[self].model.tQ = agents[self].model.tQ
             /\ agents'[self].model.pi = agents[self].model.pi
             /\ agents'[self].scale = agents[self].scale
             /\ agents'[self].training
        /\ pc = "upd_pi" =>
             /\ pc' = "upd_soft"
             /\ upd'.td_targets = upd.td_targets
             /\ upd'.qs.zs = upd.zs
             /\ upd'.qs.Q = agents[self].model.Qs
             /\ agents'[self].scale # agents[self].scale
             /\ upd'.scale_applied = agents'[self].scale
             /\ agents'[self].model = [agents[self].model EXCEPT !.pi = agents'[self].model.pi]
        /\ pc = "upd_soft" =>
             /\ pc' = "idle"
             /\ agents'[self].model =
                  [agents[self].model EXCEPT
                      !.tQ = SoftUpdate(agents[self].model.tQ, agents[self].model.Qs)]
             /\ ~agents'[self].training
             /\ ret'.op = "update"
             /\ ret'.td_targets = upd.td_targets
        /\ (pc = "idle" /\ pc' = "idle") =>
             \A a \in 1..Len(agents) : agents'[a].model = agents[a].model
      ]_vars

\* C5 witness: a second update has returned.
C5_Witness ==
    /\ ret.op = "update"
    /\ calls = 3
    /\ ret.td_targets.Q # agents[ret.agent].model.tQ

\* C6 as stated: every NaN, +Inf or -Inf value estimate is replaced with zero
\* before elite selection.
C6_NonFiniteToZero ==
    (pc = "plan_loop" /\ it > 0) =>
        \A i \in 1..NumSamples :
            ~IsFinite(value.raw[i]) => value.clean[i] = R(0)

\* C6 as amended: NaN is replaced with zero, +Inf with the largest and -Inf
\* with the lowest finite value; no non-finite value reaches the selection or
\* the weights, and the elites are the largest of the replaced values.
C6_NonFiniteReplaced ==
    (pc = "plan_loop" /\ it > 0) =>
        /\ \A i \in 1..NumSamples :
             /\ IsFinite(value.clean[i])
             /\ IsNaN(value.raw[i]) => value.clean[i] = R(0)
             /\ value.raw[i] = PosInf => value.clean[i] = R(FMax)
             /\ value.raw[i] = NegInf => value.clean[i] = R(-FMax)
             /\ IsFinite(value.raw[i]) => value.clean[i] = value.raw[i]
        /\ \A j \in 1..NumElites : elite.score[j] >= 0
        /\ \E j \in 1..NumElites : elite.score[j] > 0
        /\ \A o \in 1..NumSamples, j \in 1..NumElites :
             (\A k \in 1..NumElites : elite.idxs[k] # o)
                => RLe(value.clean[o], value.clean[elite.idxs[j]])

\* C6 witness: an iteration saw a NaN and an infinite estimate.
C6_Witness ==
    /\ pc = "plan_loop"
    /\ it > 0
    /\ \E i, k \in 1..NumSamples : IsNaN(value.raw[i]) /\ value.raw[k] = PosInf

\* the claim's clamp((frac - 1) / frac, discount_min, discount_max) with
\* frac = episode_length / discount_denom, i.e. (episode_length - denom) / episode_length
ExpectedDiscount(c, episode_length) ==
    LET x == Norm(episode_length - c.discount_denom, episode_length)
    IN  IF RLt(x, c.discount_min)
        THEN (IF RLt(c.discount_max, c.discount_min) THEN c.discount_max ELSE c.discount_min)
        ELSE IF RGt(x, c.discount_max) THEN c.discount_max ELSE x

EpisodeLengthOf(c, k) == IF c.multitask THEN c.episode_lengths[k] ELSE c.episode_length

\* C7 as stated: every stored discount lies in [discount_min, discount_max],
\* override or not, and plan and update never change it.
C7_DiscountInRange ==
    \A a \in 1..Len(agents) : \A k \in 1..Len(agents[a].discount) :
        /\ RLe(cfg.discount_min, agents[a].discount[k])
        /\ RLe(agents[a].discount[k], cfg.discount_max)

\* C7 as amended: with no override the stored discount is the clamped
\* heuristic, inside [discount_min, discount_max] when discount_min <=
\* discount_max; with an override it is the override, inside the range or
\* not; plan and update leave it as construction stored it.
C7_DiscountStored ==
    \A a \in 1..Len(agents) : \A k \in 1..Len(agents[a].discount) :
        LET d == agents[a].discount[k]
        IN  IF cfg.discount_hardcoded # R(0)
            THEN d = cfg.discount_hardcoded
            ELSE /\ d = ExpectedDiscount(cfg, EpisodeLengthOf(cfg, k))
                 /\ RLe(cfg.discount_min, cfg.discount_max) =>
                        RLe(cfg.discount_min, d) /\ RLe(d, cfg.discount_max)

\* C7 witness: after an update, a discount saturated at discount_max.
C7_Witness ==
    /\ ret.op = "update"
    /\ cfg.discount_hardcoded = R(0)
    /\ RLt(cfg.discount_min, cfg.discount_max)
    /\ agents[1].discount[1] = cfg.discount_max
    /\ agents[1].prev_mean # ZeroMean(cfg.action_dim)

\* C8: with no hardcoded override (and a non-zero denominator) the discount
\* heuristic has no error outcome, for every episode_length, 0 included.
C8_NoErrorOutcome ==
    (cfg.discount_hardcoded = R(0) /\ cfg.discount_denom # 0) => err = "none"

\* C9: every plan call runs the configured iterations, plus 2 when
\* action_dim >= 20, however many agents were built from the configuration.
C9_FixedIterations ==
    ret.op = "plan" =>
        ret.iterations = BaseIterations
            + (IF cfg.action_dim >= LargeActionDim THEN IterationsBonus ELSE 0)

\* C10: every init_bc call ends with the world model equal to the
\* behaviour-cloning model; no step of update changes the behaviour-cloning
\* model, so policy_action, which reads only that model, answers the same
\* before and after.
C10_BcModel ==
    [][ /\ (ret'.op = "init_bc" /\ calls' = calls + 1) =>
             agents'[ret'.agent].model = agents'[ret'.agent].bc_model
        /\ (pc \in UpdatePcs \/ pc' \in UpdatePcs) =>
             \A a \in 1..Len(agents) :
                /\ agents'[a].bc_model = agents[a].bc_model
                /\ \A obs \in 0..(NZ - 1), e \in BOOLEAN :
                     PolicyActionOf(agents'[a], cfg', obs, e, 0)
                        = PolicyActionOf(agents[a], cfg, obs, e, 0)
        /\ (ret'.op = "policy_action" /\ calls' = calls + 1) =>
             LET b == agents[ret'.agent].bc_model
                 z == Encode(b, ret'.obs, ret'.task)
             IN  ret'.action = IF ret'.eval_mode
                               THEN PiMean(b, z, ret'.task, cfg.action_dim)
                               ELSE PiSample(b, z, ret'.task, cfg.action_dim)
      ]_vars

\* C10 witness: init_bc returned after an update had trained the model.
C10_Witness ==
    /\ ret.op = "init_bc"
    /\ agents[ret.agent].scale # 0
    /\ agents[ret.agent].model = agents[ret.agent].bc_model

====
